---- MODULE Spec2Model ----
(***************************************************************************)
(* A model of pos_list.py, the generator of Micro-Manager position lists.  *)
(*                                                                         *)
(* Values.  A z coordinate is a fixed-point integer: Tick units make       *)
(* 0.0001, so 0.0002 is 2 * Tick and round(4) rounds to a multiple of      *)
(* Tick.  An optional value (a keyword argument that may be left out, an   *)
(* option the command line or the settings file may not give, the z        *)
(* handed to a template) is a sequence: << >> when absent, <<v>> when      *)
(* given.  Python's None for noise_type is the string "None".  A string    *)
(* built from templates is the sequence of its chunks, each chunk          *)
(* [tmpl, args]: the template's name and the values formatted into it.     *)
(***************************************************************************)
EXTENDS Integers, Sequences, FiniteSets, TLC

VARIABLES
    pc,           \* "start" or, of a run of the script, "main", or, of a direct call
                  \* of generate_pos_file, "call"; then "done"
    x_arr,        \* the x axis
    y_arr,        \* the y axis
    z,            \* the z specification: [kind, v]
    kwargs,       \* the keyword arguments the caller passes, each optional
    argv,         \* the options of the command line, each optional
    settings,     \* the options the settings file assigns, each optional
    location,     \* the output location: [exists, text]
    rand,         \* the outcomes of the random draws: [shuffle, noise]
    positions,    \* the list of (x, y) pairs
    full_string,  \* create_full_string's outcome: [status, str, warned]
    ran           \* the options generate_pos_file ran with, and the noise it passed on

vars == <<pc, x_arr, y_arr, z, kwargs, argv, settings, location, rand,
          positions, full_string, ran>>

(***************************** bounds **************************************)
Tick == 4            \* model units per 0.0001
MaxX == 4            \* longest x axis given to create_pairs
MaxY == 3            \* longest y axis given to create_pairs
MaxShuffleLen == 4   \* most pairs shuffled in random mode
MaxPos == 3          \* most positions given to create_full_string
MaxZLen == 3         \* longest z array
MaxGenPos == 2       \* most positions generate_pos_file is run on

(***************************** create_pairs ********************************)
Reverse(s) == [i \in 1..Len(s) |-> s[Len(s) + 1 - i]]

\* for y in ys: pairs.append([x,y])
AppendRow(pairs, x, ys) == pairs \o [j \in 1..Len(ys) |-> <<x, ys[j]>>]

\* for x in xs: pairs.append([x,y])
AppendCol(pairs, xs, y) == pairs \o [i \in 1..Len(xs) |-> <<xs[i], y>>]

RECURSIVE reversed_loop(_, _, _, _)
reversed_loop(xs, ys, k, pairs) ==
    IF k > Len(ys) THEN pairs
    ELSE reversed_loop(xs, ys, k + 1, AppendCol(pairs, xs, ys[k]))

\* The variant that never turns back: direction is not set to 1 again.
RECURSIVE snake_loop_stuck(_, _, _, _, _)
snake_loop_stuck(xs, ys, k, direction, pairs) ==
    IF k > Len(xs) THEN pairs
    ELSE IF direction = 1
         THEN snake_loop_stuck(xs, ys, k + 1, -1, AppendRow(pairs, xs[k], ys))
         ELSE snake_loop_stuck(xs, ys, k + 1, -1, AppendRow(pairs, xs[k], Reverse(ys)))

RECURSIVE snake_loop(_, _, _, _, _)
snake_loop(xs, ys, k, direction, pairs) ==
    IF k > Len(xs) THEN pairs
    ELSE IF direction = 1
         THEN snake_loop(xs, ys, k + 1, -1, AppendRow(pairs, xs[k], ys))
         ELSE snake_loop(xs, ys, k + 1, 1, AppendRow(pairs, xs[k], Reverse(ys)))

RECURSIVE standard_loop(_, _, _, _)
standard_loop(xs, ys, k, pairs) ==
    IF k > Len(xs) THEN pairs
    ELSE standard_loop(xs, ys, k + 1, AppendRow(pairs, xs[k], ys))

\* random.shuffle(pairs), the draw's outcome being the permutation perm
shuffle(pairs, perm) == [k \in 1..Len(pairs) |-> pairs[perm[k]]]

\* The outcomes random.shuffle can have on the pairs create_pairs builds.
ShuffleOutcomes(xs, ys, mode) ==
    IF mode = "random" THEN Permutations(1..(Len(xs) * Len(ys)))
    ELSE {<< >>}

\* "if" in place of "elif": the reversed pairs are followed by the standard ones.
create_pairs_fallthrough(xs, ys, mode, perm) ==
    LET first == IF mode = "reversed" THEN reversed_loop(xs, ys, 1, << >>) ELSE << >>
        pairs == IF mode = "snake" THEN snake_loop(xs, ys, 1, 1, first)
                 ELSE standard_loop(xs, ys, 1, first)
    IN  IF mode = "random" THEN shuffle(pairs, perm) ELSE pairs

create_pairs(xs, ys, mode, perm) ==
    LET pairs == IF mode = "reversed" THEN reversed_loop(xs, ys, 1, << >>)
                 ELSE IF mode = "snake" THEN snake_loop(xs, ys, 1, 1, << >>)
                 ELSE standard_loop(xs, ys, 1, << >>)
    IN  IF mode = "random" THEN shuffle(pairs, perm) ELSE pairs

(***************************** z values ************************************)
NoZ == [kind |-> "None", v |-> << >>]
Scalar(n) == [kind |-> "scalar", v |-> <<n>>]

Abs(n) == IF n < 0 THEN -n ELSE n

\* 0.0002, the least distance between two z values the consumer tells apart
MinSep == 2 * Tick

\* numpy's round(4): to the nearest multiple of 0.0001, a tie to the even one
Round4(n) ==
    LET q == n \div Tick
        r == n % Tick
        up == IF 2 * r > Tick THEN TRUE
              ELSE IF 2 * r < Tick THEN FALSE
              ELSE q % 2 = 1
    IN  Tick * (IF up THEN q + 1 ELSE q)

\* Python's truth value of z ("if z:"): "True", "False", or the error raised
Truth(zs) ==
    CASE zs.kind = "None" -> "False"
      [] zs.kind = "scalar" -> IF zs.v[1] # 0 THEN "True" ELSE "False"
      [] zs.kind = "list" -> IF Len(zs.v) > 0 THEN "True" ELSE "False"
      [] zs.kind = "ndarray" ->
            IF Len(zs.v) = 0 THEN "False"
            ELSE IF Len(zs.v) = 1 THEN (IF zs.v[1] # 0 THEN "True" ELSE "False")
            ELSE "ValueError"

\* Whether numpy can add an array of length n and z
Broadcastable(n, zs) ==
    zs.kind = "scalar" \/ Len(zs.v) = n \/ Len(zs.v) = 1 \/ n = 1

\* np.zeros(n) + z
Broadcast(n, zs) ==
    IF zs.kind = "scalar" \/ Len(zs.v) = 1 THEN [i \in 1..n |-> zs.v[1]]
    ELSE zs.v

\* z_arr += delta, delta of length 1 being added to every entry
AddInPlace(z_arr, delta) ==
    [i \in 1..Len(z_arr) |-> z_arr[i] + (IF Len(delta) = 1 THEN delta[1] ELSE delta[i])]

\* The values (np.random.random() - 0.5) * noise_width can take
DrawRange(w) ==
    IF w = 0 THEN {0} ELSE {d \in -Abs(w)..Abs(w) : -Abs(w) <= 2 * d /\ 2 * d < Abs(w)}

\* The pass that nudges z_arr[k+1] by half of what is needed.
RECURSIVE nudge_loop_short(_, _)
nudge_loop_short(z_arr, k) ==
    IF k >= Len(z_arr) THEN z_arr
    ELSE IF Abs(z_arr[k] - z_arr[k + 1]) < MinSep
         THEN IF z_arr[k] < z_arr[k + 1]
              THEN nudge_loop_short([z_arr EXCEPT ![k + 1] = @ + Tick], k + 1)
              ELSE nudge_loop_short([z_arr EXCEPT ![k + 1] = @ - Tick], k + 1)
         ELSE nudge_loop_short(z_arr, k + 1)

\* for k in range(len(z_arr)-1): move z_arr[k+1] away from z_arr[k]
RECURSIVE nudge_loop(_, _)
nudge_loop(z_arr, k) ==
    IF k >= Len(z_arr) THEN z_arr
    ELSE IF Abs(z_arr[k] - z_arr[k + 1]) < MinSep
         THEN IF z_arr[k] < z_arr[k + 1]
              THEN nudge_loop([z_arr EXCEPT ![k + 1] = @ + MinSep], k + 1)
              ELSE nudge_loop([z_arr EXCEPT ![k + 1] = @ - MinSep], k + 1)
         ELSE nudge_loop(z_arr, k + 1)

\* [i%2 for i in range(n)] * noise_width
Oscillation(n, noise_width) == [i \in 1..n |-> ((i - 1) % 2) * noise_width]

\* z_arr once the noise is added and the values are rounded
noisy_z(n, zs, noise_width, noise_type, noise) ==
    LET z_arr == Broadcast(n, zs)
        noised == IF noise_type = "white" THEN nudge_loop(AddInPlace(z_arr, noise), 1)
                  ELSE IF noise_type = "oscil"
                       THEN AddInPlace(z_arr, Oscillation(n, noise_width))
                       ELSE z_arr
    IN  [i \in 1..Len(noised) |-> Round4(noised[i])]

(***************************** strings *************************************)
Chunk(tmpl, args) == [tmpl |-> tmpl, args |-> args]
str_main_1 == <<Chunk("str_main_1", << >>)>>
str_main_2 == <<Chunk("str_main_2", << >>)>>
Comma == <<Chunk(",\n", << >>)>>

create_new_position_string(pair, i, zopt) ==
    IF zopt # << >>
    THEN <<Chunk("str_ref_with_z", <<zopt[1], pair[1], pair[2], i>>)>>
    ELSE <<Chunk("str_ref", <<pair[1], pair[2], i>>)>>

Ok(str, warned) == [status |-> "ok", str |-> str, warned |-> warned]
Raise(error) == [status |-> error, str |-> << >>, warned |-> FALSE]

(***************************** create_full_string **************************)
\* The blocks of positions i..n, a ",\n" after each but the last;
\* z_arr is << >> when the name z_arr was never bound.
RECURSIVE position_loop(_, _, _, _, _)
position_loop(pos, zs, z_arr, i, str) ==
    IF i > Len(pos) THEN Ok(str \o str_main_2, FALSE)
    ELSE IF zs.kind # "None" /\ z_arr = << >> THEN Raise("NameError")
    ELSE position_loop(pos, zs, z_arr, i + 1,
            str \o create_new_position_string(pos[i], i - 1,
                       IF zs.kind # "None" THEN <<z_arr[i]>> ELSE << >>)
                \o (IF i - 1 < Len(pos) - 1 THEN Comma ELSE << >>))

\* The stack whose labels restart at every position: j in place of i*len(z)+j.
RECURSIVE stack_loop_relabel(_, _, _, _, _)
stack_loop_relabel(pos, zv, i, j, str) ==
    IF i > Len(pos) THEN str
    ELSE IF j > Len(zv) THEN stack_loop_relabel(pos, zv, i + 1, 1, str)
    ELSE stack_loop_relabel(pos, zv, i, j + 1,
            str \o create_new_position_string(pos[i], j - 1, <<zv[j]>>)
                \o (IF i - 1 < Len(pos) - 1 \/ j - 1 < Len(zv) - 1 THEN Comma ELSE << >>))

\* for i in range(len(positions)): for j in range(len(z)): ...
RECURSIVE stack_loop(_, _, _, _, _)
stack_loop(pos, zv, i, j, str) ==
    IF i > Len(pos) THEN str
    ELSE IF j > Len(zv) THEN stack_loop(pos, zv, i + 1, 1, str)
    ELSE stack_loop(pos, zv, i, j + 1,
            str \o create_new_position_string(pos[i], (i - 1) * Len(zv) + (j - 1), <<zv[j]>>)
                \o (IF i - 1 < Len(pos) - 1 \/ j - 1 < Len(zv) - 1 THEN Comma ELSE << >>))

\* Whether create_full_string draws white noise, and so reads noise
DrawsNoise(pos, zs, z_stack, noise_type) ==
    /\ ~z_stack
    /\ Truth(zs) = "True"
    /\ Broadcastable(Len(pos), zs)
    /\ noise_type = "white"

\* The outcomes np.random.random(len(positions)) can have, scaled by noise_width
NoiseOutcomes(pos, zs, z_stack, noise_width, noise_type) ==
    IF DrawsNoise(pos, zs, z_stack, noise_type)
    THEN [1..Len(pos) -> DrawRange(noise_width)]
    ELSE {<< >>}

create_full_string(pos, zs, z_stack, noise_width, noise_type, noise) ==
    IF ~z_stack
    THEN IF Truth(zs) = "ValueError" THEN Raise("ValueError")
         ELSE IF Truth(zs) = "True" /\ ~Broadcastable(Len(pos), zs) THEN Raise("Exception")
         ELSE position_loop(pos, zs,
                  IF Truth(zs) = "True"
                  THEN noisy_z(Len(pos), zs, noise_width, noise_type, noise)
                  ELSE << >>,
                  1, str_main_1)
    ELSE IF zs.kind = "None" THEN Raise("Exception")
         ELSE IF Len(pos) > 0 /\ zs.kind = "scalar" THEN Raise("TypeError")
         ELSE Ok(stack_loop(pos, IF zs.kind = "scalar" THEN << >> ELSE zs.v, 1, 1, str_main_1)
                     \o str_main_2,
                 noise_width # 0 \/ noise_type # "None")

(***************************** generate_pos_file ***************************)
OptionNames == {"z_stack", "noise_width", "noise_type", "mode", "compatibility_MDA"}
NoOptions == [f \in OptionNames |-> << >>]

\* The defaults of generate_pos_file's signature
SignatureDefaults ==
    [z_stack |-> FALSE, noise_width |-> 0, noise_type |-> "None",
     mode |-> "standard", compatibility_MDA |-> TRUE]

\* The arguments generate_pos_file receives: what is passed, else the default
Received(kw) ==
    [f \in OptionNames |-> IF kw[f] # << >> THEN kw[f][1] ELSE SignatureDefaults[f]]

\* The noise create_full_string is called with
PassedNoise(o) ==
    [noise_type |-> IF o.compatibility_MDA /\ o.noise_type = "None"
                    THEN "oscil" ELSE o.noise_type,
     noise_width |-> IF o.compatibility_MDA /\ o.noise_width < MinSep
                     THEN MinSep ELSE o.noise_width]

Absent == [exists |-> FALSE, text |-> << >>]
Written(str) == [exists |-> TRUE, text |-> str]

\* The file opened for writing before the string is built.
generate_pos_file_open_first(xs, ys, zs, loc, o, perm, noise) ==
    LET pos == create_pairs(xs, ys, o.mode, perm)
        n == PassedNoise(o)
        full == create_full_string(pos, zs, o.z_stack, n.noise_width, n.noise_type, noise)
    IN  [positions |-> pos, full_string |-> full,
         location |-> IF full.status = "ok" THEN Written(full.str) ELSE Written(<< >>)]

generate_pos_file(xs, ys, zs, loc, o, perm, noise) ==
    LET pos == create_pairs(xs, ys, o.mode, perm)
        n == PassedNoise(o)
        full == create_full_string(pos, zs, o.z_stack, n.noise_width, n.noise_type, noise)
    IN  [positions |-> pos, full_string |-> full,
         location |-> IF full.status = "ok" THEN Written(full.str) ELSE loc]

(***************************** __main__ ************************************)
\* The parameters the script sets before it executes the settings file
ScriptParameters ==
    [z_stack |-> TRUE, noise_width |-> 0, noise_type |-> "None",
     mode |-> "snake", compatibility_MDA |-> TRUE]

\* DEFAULT_*: the script's parameters, overwritten by the settings file
FileDefaults(file) ==
    [f \in OptionNames |-> IF file[f] # << >> THEN file[f][1] ELSE ScriptParameters[f]]

\* The keyword arguments of the script's call: the command line's value when
\* it is not UNSPECIFIED, else the default
Resolve(args, file) ==
    [f \in OptionNames |-> IF args[f] # << >> THEN args[f] ELSE <<FileDefaults(file)[f]>>]

(***************************** inputs ***************************************)
AxisVals == {0, 1}
Axes(n) == UNION {[1..k -> AxisVals] : k \in 0..n}
Modes == {"standard", "reversed", "snake", "random"}
NoiseTypes == {"None", "white", "oscil"}
Widths == {0, Tick, 2 * Tick + 1}
Opt(S) == {<< >>} \cup {<<v>> : v \in S}

Lin(n) == [i \in 1..n |-> i - 1]
PositionLists == {create_pairs(Lin(k), <<0>>, "snake", << >>) : k \in 0..MaxPos}

ScalarVals == {-(Tick + 1), 0, Tick \div 2, 3 * Tick}
ArrVals == {0, 2 * Tick + 1}
Arrays(n) == UNION {[1..k -> ArrVals] : k \in 0..n}
ZSpecs(n) ==
    {NoZ} \cup {Scalar(v) : v \in ScalarVals}
          \cup {[kind |-> kd, v |-> a] : kd \in {"list", "ndarray"}, a \in Arrays(n)}

NotRun == << >>
NoRand == [shuffle |-> << >>, noise |-> << >>]
NoString == [status |-> "none", str |-> << >>, warned |-> FALSE]

(***************************** a call of create_pairs **********************)
InitPairs ==
    /\ pc = "start"
    /\ x_arr \in Axes(MaxX)
    /\ y_arr \in Axes(MaxY)
    /\ \E m \in Modes :
          /\ m = "random" => Len(x_arr) * Len(y_arr) <= MaxShuffleLen
          /\ kwargs = [NoOptions EXCEPT !.mode = <<m>>]
    /\ z = NoZ
    /\ argv = NoOptions
    /\ settings = NoOptions
    /\ location = Absent
    /\ rand = NoRand
    /\ positions = << >>
    /\ full_string = NoString
    /\ ran = NotRun

CallCreatePairs ==
    /\ pc = "start"
    /\ \E perm \in ShuffleOutcomes(x_arr, y_arr, kwargs.mode[1]) :
          /\ positions' = create_pairs(x_arr, y_arr, kwargs.mode[1], perm)
          /\ rand' = [rand EXCEPT !.shuffle = perm]
    /\ pc' = "done"
    /\ UNCHANGED <<x_arr, y_arr, z, kwargs, argv, settings, location, full_string, ran>>

SpecPairs == InitPairs /\ [][CallCreatePairs]_vars

(***************************** a call of create_full_string ****************)
InitFullString ==
    /\ pc = "start"
    /\ positions \in PositionLists
    /\ z \in ZSpecs(MaxZLen)
    /\ \E s \in BOOLEAN, w \in Widths, t \in NoiseTypes :
          kwargs = [NoOptions EXCEPT !.z_stack = <<s>>, !.noise_width = <<w>>,
                                     !.noise_type = <<t>>]
    /\ x_arr = << >>
    /\ y_arr = << >>
    /\ argv = NoOptions
    /\ settings = NoOptions
    /\ location = Absent
    /\ rand = NoRand
    /\ full_string = NoString
    /\ ran = NotRun

CallCreateFullString ==
    /\ pc = "start"
    /\ \E noise \in NoiseOutcomes(positions, z, kwargs.z_stack[1],
                                  kwargs.noise_width[1], kwargs.noise_type[1]) :
          /\ full_string' = create_full_string(positions, z, kwargs.z_stack[1],
                                kwargs.noise_width[1], kwargs.noise_type[1], noise)
          /\ rand' = [rand EXCEPT !.noise = noise]
    /\ pc' = "done"
    /\ UNCHANGED <<x_arr, y_arr, z, kwargs, argv, settings, location, positions, ran>>

SpecFullString == InitFullString /\ [][CallCreateFullString]_vars

(***************************** the script and generate_pos_file ************)
OldFile == Written(<<Chunk("an earlier file", << >>)>>)

\* The axes generate_pos_file is run on
GenAxes ==
    {a \in Axes(MaxGenPos) \X Axes(MaxGenPos) :
        /\ Len(a[1]) * Len(a[2]) <= MaxGenPos
        /\ Len(a[2]) >= 1
        /\ \A i \in 1..Len(a[1]) : a[1][i] = i - 1
        /\ \A j \in 1..Len(a[2]) : a[2][j] = j - 1}

GenZ == {zs \in ZSpecs(MaxGenPos) : zs.kind = "scalar" => zs.v[1] \in {0, 3 * Tick}}

\* A direct call of generate_pos_file, any keyword argument left out or passed
InitCall ==
    /\ pc = "call"
    /\ argv = NoOptions
    /\ settings = NoOptions
    /\ \E a \in GenAxes : x_arr = a[1] /\ y_arr = a[2]
    /\ z \in GenZ
    /\ \E s \in Opt(BOOLEAN), w \in Opt(Widths), t \in Opt(NoiseTypes),
          m \in Opt({"reversed", "random"}), c \in Opt(BOOLEAN) :
          kwargs = [z_stack |-> s, noise_width |-> w, noise_type |-> t,
                    mode |-> m, compatibility_MDA |-> c]

\* A run of the script: the command line and the settings file give options
\* or do not (--z_stack and --compatibility_MDA can only give True,
\* --noise_width only an integer, --noise_type no None)
InitMain ==
    /\ pc = "main"
    /\ kwargs = NoOptions
    /\ x_arr = <<0, 1>>
    /\ y_arr = <<0>>
    /\ z \in {Scalar(3 * Tick), [kind |-> "list", v |-> <<0, 2 * Tick + 1>>]}
    /\ \E s \in Opt({TRUE}), w \in Opt({0, 10000 * Tick}), t \in Opt({"oscil"}),
          m \in Opt({"standard", "random"}), c \in Opt({TRUE}) :
          argv = [z_stack |-> s, noise_width |-> w, noise_type |-> t,
                  mode |-> m, compatibility_MDA |-> c]
    /\ \E s \in Opt(BOOLEAN), w \in Opt({Tick}), t \in Opt({"None", "oscil"}),
          m \in Opt({"reversed"}), c \in Opt(BOOLEAN) :
          settings = [z_stack |-> s, noise_width |-> w, noise_type |-> t,
                      mode |-> m, compatibility_MDA |-> c]

Init ==
    /\ InitCall \/ InitMain
    /\ location \in {Absent, OldFile}
    /\ rand = NoRand
    /\ positions = << >>
    /\ full_string = NoString
    /\ ran = NotRun

\* generate_pos_file called with the keyword arguments kw
Run(kw) ==
    LET o == Received(kw)
        n == PassedNoise(o)
    IN  \E perm \in ShuffleOutcomes(x_arr, y_arr, o.mode) :
        \E noise \in NoiseOutcomes(create_pairs(x_arr, y_arr, o.mode, perm), z,
                                   o.z_stack, n.noise_width, n.noise_type) :
           LET r == generate_pos_file(x_arr, y_arr, z, location, o, perm, noise)
           IN  /\ positions' = r.positions
               /\ full_string' = r.full_string
               /\ location' = r.location
               /\ rand' = [shuffle |-> perm, noise |-> noise]
               /\ ran' = <<[options |-> o, passed |-> n]>>

\* The script: the options are resolved and generate_pos_file is called
Main ==
    /\ pc = "main"
    /\ Run(Resolve(argv, settings))
    /\ pc' = "done"
    /\ UNCHANGED <<x_arr, y_arr, z, kwargs, argv, settings>>

\* A direct call of generate_pos_file
GeneratePosFile ==
    /\ pc = "call"
    /\ Run(kwargs)
    /\ pc' = "done"
    /\ UNCHANGED <<x_arr, y_arr, z, kwargs, argv, settings>>

Next == Main \/ GeneratePosFile

Spec == Init /\ [][Next]_vars

(***************************** reading the results *************************)
IsBlock(c) == c.tmpl \in {"str_ref", "str_ref_with_z"}
Blocks(str) == SelectSeq(str, IsBlock)
WithZ(z_val, pair, i) == Chunk("str_ref_with_z", <<z_val, pair[1], pair[2], i>>)
Cells(xs, ys) == (1..Len(xs)) \X (1..Len(ys))
Occurrences(seq, v) == Cardinality({k \in 1..Len(seq) : seq[k] = v})
StandardOrder(xs, ys) ==
    [k \in 1..(Len(xs) * Len(ys)) |->
        <<xs[((k - 1) \div Len(ys)) + 1], ys[((k - 1) % Len(ys)) + 1]>>]
TheMode == kwargs.mode[1]
StackMode == kwargs.z_stack[1]
Options == ran[1].options

(***************************** claims ***************************************)
\* C1: for non-empty axes x (length n) and y (length m) and every mode,
\* create_pairs returns n*m entries in which every index combination
\* (x[i], y[j]) appears exactly once (a value pair occurs as many times as
\* there are index combinations that give it); in random mode the result is
\* a permutation of the standard-mode order.
C1_AllPairsOnce ==
    (pc = "done" /\ Len(x_arr) >= 1 /\ Len(y_arr) >= 1) =>
        /\ Len(positions) = Len(x_arr) * Len(y_arr)
        /\ \A k \in 1..Len(positions) :
              \E c \in Cells(x_arr, y_arr) : positions[k] = <<x_arr[c[1]], y_arr[c[2]]>>
        /\ \A c \in Cells(x_arr, y_arr) :
              Occurrences(positions, <<x_arr[c[1]], y_arr[c[2]]>>)
                = Cardinality({d \in Cells(x_arr, y_arr) :
                                 <<x_arr[d[1]], y_arr[d[2]]>> = <<x_arr[c[1]], y_arr[c[2]]>>})
        /\ TheMode = "random" =>
              \E perm \in Permutations(1..Len(positions)) :
                 positions = [k \in 1..Len(positions) |-> StandardOrder(x_arr, y_arr)[perm[k]]]

C1_Witness ==
    /\ pc = "done"
    /\ TheMode = "random"
    /\ Len(x_arr) = 2 /\ Len(y_arr) = 2
    /\ x_arr[1] # x_arr[2] /\ y_arr[1] # y_arr[2]
    /\ positions[1] = <<x_arr[2], y_arr[1]>>
    /\ positions[2] = <<x_arr[1], y_arr[2]>>

\* C2: in snake mode the m entries emitted for the k-th x (0-based) are
\* contiguous, at places k*m .. k*m+m-1, and sweep y forward when k is even
\* and backward when k is odd, for any number of x-steps.
C2_SnakeAlternates ==
    (pc = "done" /\ TheMode = "snake") =>
        /\ Len(positions) = Len(x_arr) * Len(y_arr)
        /\ \A c \in Cells(x_arr, y_arr) :
              positions[(c[1] - 1) * Len(y_arr) + c[2]]
                = <<x_arr[c[1]],
                    y_arr[IF (c[1] - 1) % 2 = 0 THEN c[2] ELSE Len(y_arr) + 1 - c[2]]>>

C2_Witness ==
    /\ pc = "done"
    /\ TheMode = "snake"
    /\ Len(x_arr) >= 4
    /\ Len(y_arr) >= 2
    /\ y_arr[1] # y_arr[Len(y_arr)]
    /\ positions[2 * Len(y_arr) + 1] = <<x_arr[3], y_arr[1]>>
    /\ positions[3 * Len(y_arr) + 1] = <<x_arr[4], y_arr[Len(y_arr)]>>

\* C3: in non-stack mode, for every scalar z (zero and negative values
\* included) and with no noise, generation succeeds and every position is
\* rendered with the with-Z template carrying that z (as round(4) leaves it).
C3_ScalarZ ==
    (/\ pc = "done" /\ ~StackMode /\ z.kind = "scalar"
     /\ kwargs.noise_type[1] = "None" /\ kwargs.noise_width[1] = 0) =>
        /\ full_string.status = "ok"
        /\ Blocks(full_string.str)
             = [i \in 1..Len(positions) |-> WithZ(Round4(z.v[1]), positions[i], i - 1)]

C5_StackOrder ==
    (pc = "done" /\ StackMode /\ z.kind \in {"list", "ndarray"}) =>
        LET p == Len(positions)
            q == Len(z.v)
            b == Blocks(full_string.str)
        IN  /\ full_string.status = "ok"
            /\ Len(b) = p * q
            /\ \A i \in 0..(p - 1), j \in 0..(q - 1) :
                  b[i * q + j + 1] = WithZ(z.v[j + 1], positions[i + 1], i * q + j)

C5_Witness ==
    /\ pc = "done" /\ StackMode /\ z.kind = "list"
    /\ Len(positions) >= 2
    /\ Len(z.v) >= 2
    /\ z.v[1] # z.v[2]
    /\ Len(Blocks(full_string.str)) = Len(positions) * Len(z.v)

\* C8: in non-stack mode, a z array (a list or a numpy array) with one value
\* per position makes generation succeed, the block at output index i
\* carrying z[i] (as round(4) leaves it, no noise being added).
C8_ArrayZ ==
    (/\ pc = "done" /\ ~StackMode /\ z.kind \in {"list", "ndarray"}
     /\ Len(z.v) = Len(positions)
     /\ kwargs.noise_type[1] = "None" /\ kwargs.noise_width[1] = 0) =>
        /\ full_string.status = "ok"
        /\ Blocks(full_string.str)
             = [i \in 1..Len(positions) |-> WithZ(Round4(z.v[i]), positions[i], i - 1)]

\* C10: every z value of the output, in non-stack and in z_stack mode alike,
\* is rounded to 4 decimal places: it is a multiple of 0.0001.
C10_AllZRounded ==
    (pc = "done" /\ full_string.status = "ok") =>
        \A k \in 1..Len(full_string.str) :
           full_string.str[k].tmpl = "str_ref_with_z"
              => full_string.str[k].args[1] % Tick = 0

\* C6: generate_pos_file with compatibility_MDA true and a z given: whatever
\* the mode, z_stack and the noise options, no two consecutive positions of
\* the output file carry the same z; and when no noise_type is given the
\* generation runs with noise_type "oscil" and a noise_width of at least
\* 0.0002.
C6_ZMovesAtEachStep ==
    (pc = "done" /\ Options.compatibility_MDA /\ z.kind # "None") =>
        /\ Options.noise_type = "None" =>
              /\ ran[1].passed.noise_type = "oscil"
              /\ ran[1].passed.noise_width >= MinSep
        /\ full_string.status = "ok" =>
              LET b == Blocks(location.text)
              IN  \A k \in 1..(Len(b) - 1) : b[k].args[1] # b[k + 1].args[1]

\* C7: generate_pos_file is all-or-nothing: when generation fails the error
\* is raised before the output location is opened, so the file is neither
\* created nor modified.
C7_AllOrNothing ==
    [][(pc' = "done" /\ full_string'.status # "ok") => location' = location]_vars

\* A z array that cannot be broadcast, with a file already at the location.
C7_Witness ==
    /\ pc = "done"
    /\ full_string.status = "Exception"
    /\ ~Options.z_stack
    /\ z.kind = "list" /\ Len(z.v) = 2 /\ Len(positions) = 0
    /\ location = OldFile

\* The defaults the module's documentation gives
DocumentedDefaults ==
    [z_stack |-> FALSE, noise_width |-> 0, noise_type |-> "None",
     mode |-> "snake", compatibility_MDA |-> TRUE]

\* C9: an option given neither by the caller or the command line nor by the
\* settings file has, in the generation, its documented default (z_stack
\* false, noise_width 0, noise_type none, mode "snake", compatibility_MDA
\* true), in a direct call of generate_pos_file and in a run of the script.
C9_OptionDefaults ==
    pc = "done" =>
        \A f \in OptionNames :
           (kwargs[f] = << >> /\ argv[f] = << >> /\ settings[f] = << >>)
              => Options[f] = DocumentedDefaults[f]

====
